---------------------------- MODULE Spec2Model ----------------------------
(***************************************************************************)
(* Models of the snippets of the repository that carry behaviour:          *)
(*   item30.py  the quota Bucket (plain and @property), fill and deduct    *)
(*   item24.py  the MapReduce line counter (helper and generic versions)   *)
(*   item26.py  ToDictMixin / BinaryTreeWithParent / JsonMixin             *)
(*   item23.py  increment_with_report (defaultdict with a counting hook)   *)
(* Each snippet has its own variables and its own specification; the       *)
(* variables of the other snippets stay at their initial values.           *)
(***************************************************************************)
EXTENDS Integers, Sequences, FiniteSets, TLC

VARIABLES
    \* ---- item30.py
    now,        \* the value datetime.now() returns
    plain,      \* a Bucket of lines 7-14
    prop,       \* a Bucket of lines 60-89, driven by the same calls
    last,       \* the last call: operation, amount, the buckets before it, its outcomes
    hist        \* the calls so far: all amounts positive, all within the first period;
                \* start: when the current period began (construction, or the last
                \* fill that found the period elapsed)
VARIABLES
    \* ---- item24.py
    dir,        \* the directory: the contents of its files, in os.listdir order
    mr,         \* the mapreduce call in progress: version, workers, threads, position
    runs        \* per finished version: the workers it created and its outcome

VARIABLES
    \* ---- item23.py
    current,    \* the argument current: a dict from keys to ints
    increments, \* the argument increments: a list of (key, amount)
    inc         \* the call in progress: result, added_count, position in the loop

VARIABLES
    \* ---- item26.py, the trees
    heap,       \* the objects built so far, each with its class and its __dict__
    td          \* the to_dict call in progress: the call stack and the result

varsBucket == <<now, plain, prop, last, hist>>
varsMR == <<dir, mr, runs>>
varsInc == <<current, increments, inc>>
varsTree == <<heap, td>>

VARIABLES
    \* ---- item26.py, the JSON round trip
    js          \* the description, the text to_json gives, and how far the script is

vars == <<now, plain, prop, last, hist, dir, mr, runs, current, increments, inc,
          heap, td, js>>

(***************************************************************************)
(*                          item30.py : Bucket                             *)
(***************************************************************************)

\* Bounds of the model.
MaxTime == 3
MaxPeriod == 2
MaxAmount == 2
MaxQuota == 4

Amounts == 0..MaxAmount

\* A datetime value, and the int 0 that line 21 stores in reset_time.
DateTime(t) == [dt |-> TRUE, v |-> t]
IntZero == [dt |-> FALSE, v |-> 0]

\* Bucket.__init__ of lines 8-11.
PlainBucket(period, t) ==
    [period_delta |-> period, reset_time |-> DateTime(t), quota |-> 0]

\* Bucket.__init__ of lines 61-65.
PropBucket(period, t) ==
    [period_delta |-> period, reset_time |-> DateTime(t),
     max_quota |-> 0, quota_consumed |-> 0]

IsProp(b) == "max_quota" \in DOMAIN b

\* bucket.quota read: the attribute (line 11) or the @property getter (lines 71-73).
GetQuota(b) ==
    IF IsProp(b) THEN b.max_quota - b.quota_consumed ELSE b.quota

\* The @quota.setter of lines 75-89; err is the exception it raises, "" for none.
QuotaSetter(b, amount) ==
    LET delta == b.max_quota - amount IN
    IF amount = 0
      THEN [b |-> [b EXCEPT !.quota_consumed = 0, !.max_quota = 0], err |-> ""]
    ELSE IF delta < 0
      THEN IF b.quota_consumed = 0
             THEN [b |-> [b EXCEPT !.max_quota = amount], err |-> ""]
             ELSE [b |-> b, err |-> "AssertionError"]
    ELSE IF b.max_quota >= b.quota_consumed
           THEN [b |-> [b EXCEPT !.quota_consumed = @ + delta], err |-> ""]
           ELSE [b |-> b, err |-> "AssertionError"]

\* bucket.quota = amount: attribute store, or the setter.
SetQuota(b, amount) ==
    IF IsProp(b) THEN QuotaSetter(b, amount)
    ELSE [b |-> [b EXCEPT !.quota = amount], err |-> ""]

\* now - bucket.reset_time > bucket.period_delta, for a datetime reset_time.
Elapsed(b, t) == t - b.reset_time.v > b.period_delta

\* fill of lines 17-22. datetime - int raises TypeError.
fill(b, amount, t) ==
    IF ~b.reset_time.dt THEN [b |-> b, ret |-> "TypeError"]
    ELSE LET r0 == IF Elapsed(b, t) THEN SetQuota(b, 0) ELSE [b |-> b, err |-> ""]
             b1 == IF Elapsed(b, t) /\ r0.err = ""
                     THEN [r0.b EXCEPT !.reset_time = IntZero] ELSE r0.b
             r2 == SetQuota(b1, GetQuota(b1) + amount)
         IN IF r0.err # "" THEN [b |-> r0.b, ret |-> r0.err]
            ELSE IF r2.err # "" THEN [b |-> r2.b, ret |-> r2.err]
            ELSE [b |-> r2.b, ret |-> "None"]

\* deduct with the subtraction moved before the check of the remaining quota.
deduct_writes_first(b, amount, t) ==
    IF ~b.reset_time.dt THEN [b |-> b, ret |-> "TypeError"]
    ELSE IF Elapsed(b, t) THEN [b |-> b, ret |-> "False"]
    ELSE LET r == SetQuota(b, GetQuota(b) - amount)
         IN IF r.err # "" THEN [b |-> r.b, ret |-> r.err]
            ELSE IF GetQuota(r.b) < 0 THEN [b |-> r.b, ret |-> "False"]
            ELSE [b |-> r.b, ret |-> "True"]

\* deduct of lines 25-32.
deduct(b, amount, t) ==
    IF ~b.reset_time.dt THEN [b |-> b, ret |-> "TypeError"]
    ELSE IF Elapsed(b, t) THEN [b |-> b, ret |-> "False"]
    ELSE IF GetQuota(b) - amount < 0 THEN [b |-> b, ret |-> "False"]
    ELSE LET r == SetQuota(b, GetQuota(b) - amount)
         IN IF r.err # "" THEN [b |-> r.b, ret |-> r.err]
            ELSE [b |-> r.b, ret |-> "True"]

\* The Bucket variables while another snippet runs: no bucket exists.
IdleBucket ==
    /\ now = 0
    /\ plain = <<>>
    /\ prop = <<>>
    /\ last = <<>>
    /\ hist = <<>>

(***************************************************************************)
(*                        item24.py : MapReduce                            *)
(***************************************************************************)

\* Bounds of the model: files per directory, characters per file.
MaxFiles == 2
MaxFileLen == 2

\* None, and an int, as the values of Worker.result.
None == [isNone |-> TRUE, v |-> 0]
IntVal(n) == [isNone |-> FALSE, v |-> n]

Chars == {"a", "\n"}
Contents == UNION {[1..n -> Chars] : n \in 0..MaxFileLen}
Directories == UNION {[1..n -> Contents] : n \in 0..MaxFiles}

\* data.count('\n')
RECURSIVE CountNewlines(_)
CountNewlines(data) ==
    IF data = <<>> THEN 0
    ELSE (IF Head(data) = "\n" THEN 1 ELSE 0) + CountNewlines(Tail(data))

\* The total the directory holds.
RECURSIVE TotalNewlines(_)
TotalNewlines(d) ==
    IF d = <<>> THEN 0 ELSE CountNewlines(Head(d)) + TotalNewlines(Tail(d))

\* PathInputData(path) of lines 14-17 and 100-103; entry i of the directory has
\* the path os.path.join(data_dir, name_i), written i.
PathInputData(path) == [path |-> path]

\* PathInputData.read of lines 19-20 and 105-106.
read(input_data, d) == d[input_data.path]

\* Worker.__init__ of lines 24-26 and GenericWorker.__init__ of lines 116-118.
Worker(input_data) == [input_data |-> input_data, result |-> None]

\* generate_inputs of lines 45-47: one PathInputData per name of os.listdir.
generate_inputs(d) == [i \in 1..Len(d) |-> PathInputData(i)]

\* create_workers of lines 49-53.
create_workers(input_list) ==
    [i \in 1..Len(input_list) |-> Worker(input_list[i])]

\* PathInputData.generate_inputs that misses the first name of the listing.
generate_inputs_skips_first(config) ==
    [i \in 1..(Len(config.data_dir) - 1) |-> PathInputData(i + 1)]

\* PathInputData.generate_inputs of lines 108-112.
PathInputData_generate_inputs(config) ==
    [i \in 1..Len(config.data_dir) |-> PathInputData(i)]

\* GenericWorker.create_workers of lines 126-131, with input_class PathInputData.
GenericWorker_create_workers(config) ==
    LET inputs == PathInputData_generate_inputs(config)
    IN [i \in 1..Len(inputs) |-> Worker(inputs[i])]

\* LineCountWorker.map of lines 36-38 and 135-137: count is a local, the
\* worker is left as it was.
LineCountWorker_map(w, d) ==
    LET data == read(w.input_data, d)
        count == CountNewlines(data)
    IN w

\* LineCountWorker.reduce of lines 40-41 and 139-140: self.result += other.result;
\* None + None raises TypeError.
LineCountWorker_reduce(self, other) ==
    IF self.result.isNone \/ other.result.isNone
      THEN [w |-> self, err |-> "TypeError"]
      ELSE [w |-> [self EXCEPT !.result = IntVal(@.v + other.result.v)], err |-> ""]

Pending == [kind |-> "pending", value |-> None]

\* Before a run: nothing created.
MrIdle(version) ==
    [version |-> version, pc |-> "create", workers |-> <<>>, started |-> 0,
     mapped |-> {}, idx |-> 0, out |-> Pending]

\* The MapReduce variables while another snippet runs: nothing is called.
IdleMR ==
    /\ dir = <<>>
    /\ mr = <<>>
    /\ runs = <<>>

InitMRVars ==
    /\ dir \in Directories
    /\ mr = MrIdle("helper")
    /\ runs = [v \in {"helper", "generic"} |-> [created |-> <<>>, out |-> Pending]]

\* mapreduce(data_dir), lines 68-69.
CreateHelper ==
    /\ mr.pc = "create" /\ mr.version = "helper"
    /\ LET ws == create_workers(generate_inputs(dir))
       IN /\ mr' = [mr EXCEPT !.workers = ws, !.pc = "start"]
          /\ runs' = [runs EXCEPT !["helper"].created = ws]
    /\ UNCHANGED dir
    /\ UNCHANGED <<varsBucket, varsInc, varsTree, js>>

\* mapreduce(worker_class, input_class, config), line 144, after the first
\* version has returned or raised.
CreateGeneric ==
    /\ mr.pc = "create" /\ mr.version = "generic"
    /\ LET ws == GenericWorker_create_workers([data_dir |-> dir])
       IN /\ mr' = [mr EXCEPT !.workers = ws, !.pc = "start"]
          /\ runs' = [runs EXCEPT !["generic"].created = ws]
    /\ UNCHANGED dir
    /\ UNCHANGED <<varsBucket, varsInc, varsTree, js>>

\* execute, line 58: the threads are started in order.
StartThread ==
    /\ mr.pc = "start" /\ mr.started < Len(mr.workers)
    /\ mr' = [mr EXCEPT !.started = @ + 1]
    /\ UNCHANGED <<dir, runs>>
    /\ UNCHANGED <<varsBucket, varsInc, varsTree, js>>

\* A started thread runs its worker's map (target=w.map).
MapThread ==
    \E i \in 1..mr.started :
        /\ i \notin mr.mapped
        /\ mr' = [mr EXCEPT !.workers[i] = LineCountWorker_map(@, dir),
                            !.mapped = @ \cup {i}]
        /\ UNCHANGED <<dir, runs>>
        /\ UNCHANGED <<varsBucket, varsInc, varsTree, js>>

\* The run ends with outcome out; the generic version follows the helper version.
Finish(out) ==
    /\ runs' = [runs EXCEPT ![mr.version].out = out]
    /\ mr' = IF mr.version = "helper" THEN MrIdle("generic")
             ELSE [mr EXCEPT !.pc = "done", !.out = out]

\* execute, line 58: the loop that starts the threads ends.
Started ==
    /\ mr.pc = "start" /\ mr.started = Len(mr.workers)
    /\ mr' = [mr EXCEPT !.pc = "join"]
    /\ UNCHANGED <<dir, runs>>
    /\ UNCHANGED <<varsBucket, varsInc, varsTree, js>>

\* execute, line 59: every thread is joined once its map has returned.
Join ==
    /\ mr.pc = "join"
    /\ mr.mapped = 1..Len(mr.workers)
    /\ mr' = [mr EXCEPT !.pc = "first"]
    /\ UNCHANGED <<dir, runs>>
    /\ UNCHANGED <<varsBucket, varsInc, varsTree, js>>

\* execute, line 61: first, rest = workers[0], workers[1:]; workers[0] of an
\* empty list raises IndexError.
First ==
    /\ mr.pc = "first"
    /\ IF Len(mr.workers) = 0
         THEN Finish([kind |-> "IndexError", value |-> None])
         ELSE mr' = [mr EXCEPT !.pc = "reduce", !.idx = 2] /\ UNCHANGED runs
    /\ UNCHANGED dir
    /\ UNCHANGED <<varsBucket, varsInc, varsTree, js>>

\* execute, lines 62-63: first.reduce(worker) for the next worker of rest.
Reduce ==
    /\ mr.pc = "reduce" /\ mr.idx <= Len(mr.workers)
    /\ LET r == LineCountWorker_reduce(mr.workers[1], mr.workers[mr.idx])
       IN IF r.err # ""
            THEN Finish([kind |-> r.err, value |-> None])
            ELSE /\ mr' = [mr EXCEPT !.workers[1] = r.w, !.idx = @ + 1]
                 /\ UNCHANGED runs
    /\ UNCHANGED dir
    /\ UNCHANGED <<varsBucket, varsInc, varsTree, js>>

\* execute, line 64: return first.result.
Return ==
    /\ mr.pc = "reduce" /\ mr.idx > Len(mr.workers)
    /\ Finish([kind |-> "return", value |-> mr.workers[1].result])
    /\ UNCHANGED dir
    /\ UNCHANGED <<varsBucket, varsInc, varsTree, js>>

NextMR ==
    CreateHelper \/ CreateGeneric \/ StartThread \/ Started \/ MapThread \/ Join
    \/ First \/ Reduce \/ Return

\* C5: map stores its file's line count in the worker's result, and
\* mapreduce(data_dir) returns the total number of newline characters of the
\* files of data_dir.
C5_LineCount ==
    /\ mr.pc \in {"start", "join", "first"} =>
          \A i \in mr.mapped :
             mr.workers[i].result = IntVal(CountNewlines(dir[mr.workers[i].input_data.path]))
    /\ runs["helper"].out.kind # "pending" =>
          runs["helper"].out = [kind |-> "return", value |-> IntVal(TotalNewlines(dir))]

\* C6: both versions create one worker per directory entry, for that entry's
\* path, in the listing's order, and end the same way (the same value returned,
\* or the same exception).
C6_GenericEquivalent ==
    mr.pc = "done" =>
        /\ runs["generic"].created = runs["helper"].created
        /\ Len(runs["generic"].created) = Len(dir)
        /\ \A i \in 1..Len(dir) : runs["generic"].created[i].input_data.path = i
        /\ runs["generic"].out = runs["helper"].out

\* Both versions have run on a directory of several files.
C6_Witness ==
    /\ mr.pc = "done"
    /\ Len(dir) >= 2
    /\ runs["helper"].out.kind # "pending" /\ runs["generic"].out.kind # "pending"

(***************************************************************************)
(*                  item23.py : increment_with_report                      *)
(***************************************************************************)

\* Bound of the model: the length of increments.
MaxIncrements == 3

Keys == {"red", "blue"}
CurrentValues == {0, 3}
IncAmounts == {-1, 1, 2}

Dicts == UNION {[ks -> CurrentValues] : ks \in SUBSET Keys}
IncrementLists ==
    UNION {[1..n -> [key : Keys, amount : IncAmounts]] : n \in 0..MaxIncrements}

\* A defaultdict that takes a key whose value is 0 for a missing one.
getitem_zero_is_missing(d, key, added_count) ==
    IF key \in DOMAIN d /\ d[key] # 0
      THEN [d |-> d, value |-> d[key], added_count |-> added_count]
      ELSE [d |-> [k \in DOMAIN d \cup {key} |-> IF k = key THEN 0 ELSE d[k]],
            value |-> 0, added_count |-> added_count + 1]

\* result[key] read on defaultdict(missing, current): for a key that is absent,
\* __missing__ calls missing() of lines 47-50 (added_count += 1, return 0) and
\* stores what it returns under the key.
defaultdict_getitem(d, key, added_count) ==
    IF key \in DOMAIN d
      THEN [d |-> d, value |-> d[key], added_count |-> added_count]
      ELSE [d |-> [k \in DOMAIN d \cup {key} |-> IF k = key THEN 0 ELSE d[k]],
            value |-> 0, added_count |-> added_count + 1]

\* result[key] = value
setitem(d, key, value) ==
    [k \in DOMAIN d \cup {key} |-> IF k = key THEN value ELSE d[k]]

IncIdleState ==
    [pc |-> "call", result |-> <<>>, added_count |-> 0, i |-> 1, value |-> 0]

\* The variables of item23.py while another snippet runs: nothing is called.
IdleInc ==
    /\ current = <<>>
    /\ increments = <<>>
    /\ inc = <<>>

InitIncVars ==
    /\ current \in Dicts
    /\ increments \in IncrementLists
    /\ inc = IncIdleState

\* Lines 45-52: added_count = 0; result = defaultdict(missing, current).
IncConstruct ==
    /\ inc.pc = "call"
    /\ inc' = [inc EXCEPT !.pc = "get", !.result = current, !.added_count = 0]
    /\ UNCHANGED <<current, increments>>
    /\ UNCHANGED <<varsBucket, varsMR, varsTree, js>>

\* Line 54, the read of result[key] += amount.
IncGet ==
    /\ inc.pc = "get" /\ inc.i <= Len(increments)
    /\ LET r == defaultdict_getitem(inc.result, increments[inc.i].key, inc.added_count)
       IN inc' = [inc EXCEPT !.pc = "set", !.result = r.d, !.value = r.value,
                             !.added_count = r.added_count]
    /\ UNCHANGED <<current, increments>>
    /\ UNCHANGED <<varsBucket, varsMR, varsTree, js>>

\* Line 54, the store of result[key] += amount.
IncSet ==
    /\ inc.pc = "set"
    /\ inc' = [inc EXCEPT !.pc = "get", !.i = @ + 1, !.value = 0,
                          !.result = setitem(@, increments[inc.i].key,
                                             inc.value + increments[inc.i].amount)]
    /\ UNCHANGED <<current, increments>>
    /\ UNCHANGED <<varsBucket, varsMR, varsTree, js>>

\* Line 55: return result, added_count.
IncReturn ==
    /\ inc.pc = "get" /\ inc.i > Len(increments)
    /\ inc' = [inc EXCEPT !.pc = "done"]
    /\ UNCHANGED <<current, increments>>
    /\ UNCHANGED <<varsBucket, varsMR, varsTree, js>>

NextInc == IncConstruct \/ IncGet \/ IncSet \/ IncReturn

IncKeys == {increments[j].key : j \in 1..Len(increments)}

\* The sum of the amounts the first n increments give for key.
RECURSIVE SumFor(_, _)
SumFor(key, n) ==
    IF n = 0 THEN 0
    ELSE SumFor(key, n - 1)
         + (IF increments[n].key = key THEN increments[n].amount ELSE 0)

\* C9: added_count is the number of distinct keys of increments that are not
\* keys of current, and result[key] is current's value (0 if absent) plus the
\* sum of the key's increments, for every key.
C9_IncrementReport ==
    inc.pc = "done" =>
        /\ inc.added_count = Cardinality(IncKeys \ DOMAIN current)
        /\ DOMAIN inc.result = DOMAIN current \cup IncKeys
        /\ \A key \in DOMAIN inc.result :
              inc.result[key] = (IF key \in DOMAIN current THEN current[key] ELSE 0)
                                + SumFor(key, Len(increments))

\* A call returned where a missing key recurs in increments, and another key
\* was in current.
C9_Witness ==
    /\ inc.pc = "done"
    /\ \E j, k \in 1..Len(increments) :
          j # k /\ increments[j].key = increments[k].key
          /\ increments[j].key \notin DOMAIN current
    /\ \E key \in DOMAIN current : key \in IncKeys
    /\ inc.added_count = 1

(***************************************************************************)
(*          item26.py : ToDictMixin and BinaryTreeWithParent               *)
(***************************************************************************)

\* Bound of the model: the nodes of a tree.
MaxNodes == 3

\* The nesting of to_dict calls at which the interpreter raises RecursionError
\* (sys.getrecursionlimit()); it stands above the depth of every modelled tree.
RecursionLimit == MaxNodes + 3

\* Python values: None, an int, a float, a str, a reference to an object of the
\* heap, a dict as the list of its items in insertion order, and a list as the
\* list of its elements (items whose key is "").
PyNone == [t |-> "None", n |-> 0, items |-> <<>>]
PyInt(n) == [t |-> "int", n |-> n, items |-> <<>>]
PyFloat(n) == [t |-> "float", n |-> n, items |-> <<>>]
PyStr == [t |-> "str", n |-> 0, items |-> <<>>]
Ref(id) == [t |-> "ref", n |-> id, items |-> <<>>]
PyDict(items) == [t |-> "dict", n |-> 0, items |-> items]
PyList(items) == [t |-> "list", n |-> 0, items |-> items]

Item(key, value) == [key |-> key, value |-> value]

\* The value of the node built as the id-th: every node has a value of its own,
\* so that a parent entry names one node.
NodeValue(id) == 10 * id

\* BinaryTreeWithParent.__init__ of lines 53-55 (and BinaryTree.__init__ of
\* lines 35-38): __dict__ holds value, left, right, parent in this order.
BinaryTreeWithParent(value, left, right, parent) ==
    [cls |-> "BinaryTreeWithParent",
     dict |-> <<Item("value", PyInt(value)), Item("left", left),
                Item("right", right), Item("parent", parent)>>]

\* NamedSubTree.__init__ of lines 76-78.
NamedSubTree(name, tree_with_parent) ==
    [cls |-> "NamedSubTree",
     dict |-> <<Item("name", name), Item("tree_with_parent", tree_with_parent)>>]

\* obj.<key>
RECURSIVE Lookup(_, _)
Lookup(items, key) ==
    IF Head(items).key = key THEN Head(items).value ELSE Lookup(Tail(items), key)

Attr(h, id, key) == Lookup(h[id].dict, key)

\* isinstance(value, BinaryTreeWithParent); every class of the model but
\* the dicts and scalars is a ToDictMixin.
IsTreeWithParent(h, value) ==
    value.t = "ref" /\ h[value.n].cls = "BinaryTreeWithParent"

\* ToDictMixin._traverse of lines 21-31. Every object of the model is a
\* ToDictMixin and is traversed by its own to_dict (line 23); for a dict, line 25
\* calls self._traverse(dict) with one argument, which raises TypeError; a list
\* is traversed element by element under the same key (line 27); an int, a
\* float, a str and None have no __dict__ and are returned (line 31).
ToDictMixin_traverse(h, key, value) ==
    IF value.t = "ref"
      THEN [kind |-> "to_dict", obj |-> value.n, value |-> PyNone]
    ELSE IF value.t = "dict"
      THEN [kind |-> "TypeError", obj |-> 0, value |-> PyNone]
    ELSE IF value.t = "list"
      THEN [kind |-> "list", obj |-> 0, value |-> value]
    ELSE [kind |-> "value", obj |-> 0, value |-> value]

\* A BinaryTreeWithParent without the override of _traverse.
traverse_not_overridden(h, key, value) == ToDictMixin_traverse(h, key, value)

\* BinaryTreeWithParent._traverse of lines 58-62.
BinaryTreeWithParent_traverse(h, key, value) ==
    IF IsTreeWithParent(h, value) /\ key = "parent"
      THEN [kind |-> "value", obj |-> 0, value |-> Attr(h, value.n, "value")]
      ELSE ToDictMixin_traverse(h, key, value)

\* self._traverse, by the class of self.
Traverse(h, self, key, value) ==
    IF h[self].cls = "BinaryTreeWithParent"
      THEN BinaryTreeWithParent_traverse(h, key, value)
      ELSE ToDictMixin_traverse(h, key, value)

\* A call of to_dict / _traverse_dict (lines 12-19) on obj: src is its __dict__,
\* idx the item the loop is at, out the output so far.
Frame(h, obj) == [obj |-> obj, list |-> FALSE, src |-> h[obj].dict, idx |-> 1, out |-> <<>>]

\* The list comprehension of line 27, run by self over the elements of a list.
ListFrame(self, value) ==
    [obj |-> self, list |-> TRUE, src |-> value.items, idx |-> 1, out |-> <<>>]

TdIdle == [pc |-> "build", stack |-> <<>>, result |-> PyNone, root |-> 0]

\* The tree variables while another snippet runs.
IdleTree ==
    /\ heap = <<>>
    /\ td = TdIdle

InitTreeVars ==
    /\ heap = <<>>
    /\ td = TdIdle

Nodes == {i \in 1..Len(heap) : heap[i].cls = "BinaryTreeWithParent"}

\* root = BinaryTreeWithParent(10), line 64.
NewRoot ==
    /\ td.pc = "build" /\ heap = <<>>
    /\ heap' = <<BinaryTreeWithParent(NodeValue(1), PyNone, PyNone, PyNone)>>
    /\ UNCHANGED td
    /\ UNCHANGED <<varsBucket, varsMR, varsInc, js>>

SetAttr(obj, key, value) ==
    [obj EXCEPT !.dict = [i \in 1..Len(@) |->
                             IF @[i].key = key THEN Item(key, value) ELSE @[i]]]

\* p.left = BinaryTreeWithParent(v, parent=q) or p.right = ..., lines 65-66:
\* a new node becomes a child of p where p has none; its parent attribute is
\* None or any node built before.
NewChild ==
    /\ td.pc = "build" /\ heap # <<>> /\ Len(heap) < MaxNodes
    /\ \E p \in Nodes, side \in {"left", "right"},
          parent \in {PyNone} \cup {Ref(q) : q \in Nodes} :
          /\ Attr(heap, p, side) = PyNone
          /\ heap' = Append([heap EXCEPT ![p] = SetAttr(@, side, Ref(Len(heap) + 1))],
                            BinaryTreeWithParent(NodeValue(Len(heap) + 1),
                                                 PyNone, PyNone, parent))
    /\ UNCHANGED td
    /\ UNCHANGED <<varsBucket, varsMR, varsInc, js>>

\* root.parent = node: the root, built before every other node, is given a
\* parent afterwards (a reference cycle through parent alone).
SetRootParent ==
    /\ td.pc = "build" /\ heap # <<>>
    /\ Attr(heap, 1, "parent") = PyNone
    /\ \E q \in Nodes : heap' = [heap EXCEPT ![1] = SetAttr(@, "parent", Ref(q))]
    /\ UNCHANGED td
    /\ UNCHANGED <<varsBucket, varsMR, varsInc, js>>

\* node.to_dict(), line 67, on any node of the tree.
StartToDict ==
    /\ td.pc = "build"
    /\ \E n \in Nodes :
          td' = [td EXCEPT !.pc = "run", !.stack = <<Frame(heap, n)>>, !.root = n]
    /\ UNCHANGED heap
    /\ UNCHANGED <<varsBucket, varsMR, varsInc, js>>

\* NamedSubTree('foobar', node).to_dict(), lines 80-81.
StartNamed ==
    /\ td.pc = "build"
    /\ \E n \in Nodes :
          /\ heap' = Append(heap, NamedSubTree(PyStr, Ref(n)))
          /\ td' = [td EXCEPT !.pc = "run", !.stack = <<Frame(heap', Len(heap) + 1)>>,
                              !.root = Len(heap) + 1]
    /\ UNCHANGED <<varsBucket, varsMR, varsInc, js>>

Top == td.stack[Len(td.stack)]
TopItem == Top.src[Top.idx]
TopStep == Traverse(heap, Top.obj, TopItem.key, TopItem.value)

\* The top call with value stored under the key its loop is at.
Stored(frame, key, value) ==
    [frame EXCEPT !.out = Append(@, Item(key, value)), !.idx = @ + 1]

\* The stack after its top call has returned value to the call below it, which
\* stores it under the key its loop is at.
Returned(stack, value) ==
    LET n == Len(stack) IN
    [i \in 1..(n - 1) |->
        IF i = n - 1 THEN Stored(stack[i], stack[i].src[stack[i].idx].key, value)
        ELSE stack[i]]

\* Line 18 (or an element of line 27) with a _traverse that returns a value
\* without a further call.
TraverseValue ==
    /\ td.pc = "run" /\ Top.idx <= Len(Top.src)
    /\ TopStep.kind = "value"
    /\ td' = [td EXCEPT !.stack[Len(td.stack)] = Stored(@, TopItem.key, TopStep.value)]
    /\ UNCHANGED heap
    /\ UNCHANGED <<varsBucket, varsMR, varsInc, js>>

\* Line 18 with a _traverse that calls value.to_dict() (line 23); the call
\* raises RecursionError at the interpreter's limit.
CallToDict ==
    /\ td.pc = "run" /\ Top.idx <= Len(Top.src)
    /\ TopStep.kind = "to_dict"
    /\ IF Len(td.stack) >= RecursionLimit
         THEN td' = [td EXCEPT !.pc = "RecursionError"]
         ELSE td' = [td EXCEPT !.stack = Append(@, Frame(heap, TopStep.obj))]
    /\ UNCHANGED heap
    /\ UNCHANGED <<varsBucket, varsMR, varsInc, js>>

\* Line 19: _traverse_dict returns output, to the caller's line 18 or, for the
\* outermost call, as the result.
ReturnDict ==
    /\ td.pc = "run" /\ ~Top.list /\ Top.idx > Len(Top.src)
    /\ IF Len(td.stack) = 1
         THEN td' = [td EXCEPT !.pc = "done", !.stack = <<>>, !.result = PyDict(Top.out)]
         ELSE td' = [td EXCEPT !.stack = Returned(td.stack, PyDict(Top.out))]
    /\ UNCHANGED heap
    /\ UNCHANGED <<varsBucket, varsMR, varsInc, js>>

NextTree ==
    NewRoot \/ NewChild \/ SetRootParent \/ StartToDict \/ StartNamed
    \/ TraverseValue \/ CallToDict \/ ReturnDict

(***************************************************************************)
(*              item26.py : JsonMixin and DatacenterRack                   *)
(***************************************************************************)

\* Bound of the model: the machines of a rack.
MaxMachines == 2

\* JSON text, by its structure: a number written as an integer (8), with an
\* exponent (1e9) or with a fraction (1000000000.0), an object and an array.
IntLit(n) == [t |-> "intlit", n |-> n, items |-> <<>>]
ExpLit(n) == [t |-> "explit", n |-> n, items |-> <<>>]
DecLit(n) == [t |-> "declit", n |-> n, items |-> <<>>]
NullLit == [t |-> "null", n |-> 0, items |-> <<>>]
StrLit == [t |-> "strlit", n |-> 0, items |-> <<>>]
Object(items) == [t |-> "object", n |-> 0, items |-> items]
Array(items) == [t |-> "array", n |-> 0, items |-> items]

\* json.loads: a number with an exponent or a fraction is a float, one without
\* is an int.
RECURSIVE json_loads(_)
json_loads(text) ==
    CASE text.t = "intlit" -> PyInt(text.n)
      [] text.t \in {"explit", "declit"} -> PyFloat(text.n)
      [] text.t = "null" -> PyNone
      [] text.t = "strlit" -> PyStr
      [] text.t = "object" ->
            PyDict([i \in 1..Len(text.items) |->
                       Item(text.items[i].key, json_loads(text.items[i].value))])
      [] text.t = "array" ->
            PyList([i \in 1..Len(text.items) |->
                       Item("", json_loads(text.items[i].value))])

\* json.dumps: an int is written as an integer, a float by its repr, with a
\* fraction.
RECURSIVE json_dumps(_)
json_dumps(value) ==
    CASE value.t = "int" -> IntLit(value.n)
      [] value.t = "float" -> DecLit(value.n)
      [] value.t = "None" -> NullLit
      [] value.t = "str" -> StrLit
      [] value.t = "dict" ->
            Object([i \in 1..Len(value.items) |->
                       Item(value.items[i].key, json_dumps(value.items[i].value))])
      [] value.t = "list" ->
            Array([i \in 1..Len(value.items) |->
                       Item("", json_dumps(value.items[i].value))])

\* a == b of Python: an int equals the float of the same value, lists are
\* equal element by element, dicts key by key in any order.
RECURSIVE PyEq(_, _)
PyEq(a, b) ==
    IF a.t \in {"int", "float"} THEN b.t \in {"int", "float"} /\ a.n = b.n
    ELSE IF a.t = "list"
      THEN /\ b.t = "list" /\ Len(a.items) = Len(b.items)
           /\ \A i \in 1..Len(a.items) : PyEq(a.items[i].value, b.items[i].value)
    ELSE IF a.t = "dict"
      THEN /\ b.t = "dict" /\ Len(a.items) = Len(b.items)
           /\ \A i \in 1..Len(a.items) : \E j \in 1..Len(b.items) :
                 /\ a.items[i].key = b.items[j].key
                 /\ PyEq(a.items[i].value, b.items[j].value)
    ELSE a.t = b.t

\* Switch(**kwargs) of lines 107-110.
Switch(kwargs) ==
    [cls |-> "Switch",
     dict |-> <<Item("ports", Lookup(kwargs.items, "ports")),
                Item("speed", Lookup(kwargs.items, "speed"))>>]

\* Machine(**kwargs) of lines 112-116.
Machine(kwargs) ==
    [cls |-> "Machine",
     dict |-> <<Item("cores", Lookup(kwargs.items, "cores")),
                Item("ram", Lookup(kwargs.items, "ram")),
                Item("disk", Lookup(kwargs.items, "disk"))>>]

\* DatacenterRack(**kwargs) of lines 101-105, as the heap it builds: the
\* Switch, the Machines, and last the rack that refers to them.
DatacenterRack(kwargs) ==
    LET switch == Lookup(kwargs.items, "switch")
        machines == Lookup(kwargs.items, "machines").items
        k == Len(machines)
    IN [i \in 1..(k + 2) |->
          IF i = 1 THEN Switch(switch)
          ELSE IF i <= k + 1 THEN Machine(machines[i - 1].value)
          ELSE [cls |-> "DatacenterRack",
                dict |-> <<Item("switch", Ref(1)),
                           Item("machines",
                                PyList([j \in 1..k |-> Item("", Ref(j + 1))]))>>]]

\* What a field of a description holds: a number in either form, or an object.
FieldTexts == {IntLit(8), ExpLit(1000000000), Object(<<Item("n", IntLit(5))>>)}

SwitchTexts ==
    {Object(<<Item("ports", p), Item("speed", v)>>) : p, v \in FieldTexts}
    \cup {Object(<<Item("speed", v), Item("ports", p)>>) : p, v \in FieldTexts}

MachineTexts ==
    {Object(<<Item("cores", c), Item("ram", r), Item("disk", d)>>) :
        c, r, d \in FieldTexts}

MachineLists(max) ==
    UNION {[1..n -> {Item("", m) : m \in MachineTexts}] : n \in 0..max}

\* The descriptions of a rack of at most max machines: a switch with ports and
\* speed, and a list of machines each with cores, ram and disk.
Descriptions(max) ==
    {Object(<<Item("switch", sw), Item("machines", Array(ms))>>) :
        sw \in SwitchTexts, ms \in MachineLists(max)}

JsIdle == [pc |-> "start", serialized |-> NullLit, roundtrip |-> NullLit, equal |-> FALSE]

\* The JSON variable while another snippet runs: there is no description.
IdleJson == js = <<>>

InitJsonVars ==
    /\ heap = <<>>
    /\ td = TdIdle
    /\ \E text \in Descriptions(MaxMachines) : js = [JsIdle EXCEPT !.serialized = text]

\* deserialized = DatacenterRack.from_json(serialized), lines 90-92 and 126.
FromJson ==
    /\ js.pc = "start"
    /\ heap' = DatacenterRack(json_loads(js.serialized))
    /\ js' = [js EXCEPT !.pc = "from_json"]
    /\ UNCHANGED td
    /\ UNCHANGED <<varsBucket, varsMR, varsInc>>

\* deserialized.to_json() of line 127 calls self.to_dict() (line 95).
ToJson ==
    /\ js.pc = "from_json"
    /\ td' = [td EXCEPT !.pc = "run", !.stack = <<Frame(heap, Len(heap))>>,
                        !.root = Len(heap)]
    /\ js' = [js EXCEPT !.pc = "to_dict"]
    /\ UNCHANGED heap
    /\ UNCHANGED <<varsBucket, varsMR, varsInc>>

\* Line 18 with a _traverse that runs the list comprehension of line 27.
TraverseList ==
    /\ td.pc = "run" /\ Top.idx <= Len(Top.src)
    /\ TopStep.kind = "list"
    /\ td' = [td EXCEPT !.stack = Append(@, ListFrame(Top.obj, TopStep.value))]
    /\ UNCHANGED <<heap, js>>
    /\ UNCHANGED <<varsBucket, varsMR, varsInc>>

\* Line 27: the list is complete and goes to the caller's line 18.
ReturnList ==
    /\ td.pc = "run" /\ Top.list /\ Top.idx > Len(Top.src)
    /\ td' = [td EXCEPT !.stack = Returned(td.stack, PyList(Top.out))]
    /\ UNCHANGED <<heap, js>>
    /\ UNCHANGED <<varsBucket, varsMR, varsInc>>

\* Line 25 raises TypeError, which nothing catches.
RaiseTypeError ==
    /\ td.pc = "run" /\ Top.idx <= Len(Top.src)
    /\ TopStep.kind = "TypeError"
    /\ td' = [td EXCEPT !.pc = "TypeError"]
    /\ UNCHANGED <<heap, js>>
    /\ UNCHANGED <<varsBucket, varsMR, varsInc>>

\* roundtrip = json.dumps(self.to_dict()), lines 95 and 127.
Dumps ==
    /\ js.pc = "to_dict" /\ td.pc = "done"
    /\ js' = [js EXCEPT !.pc = "to_json", !.roundtrip = json_dumps(td.result)]
    /\ UNCHANGED <<heap, td>>
    /\ UNCHANGED <<varsBucket, varsMR, varsInc>>

\* assert json.loads(serialized) == json.loads(roundtrip), line 128.
AssertRoundTrip ==
    /\ js.pc = "to_json"
    /\ js' = [js EXCEPT !.pc = "done",
                        !.equal = PyEq(json_loads(js.serialized), json_loads(js.roundtrip))]
    /\ UNCHANGED <<heap, td>>
    /\ UNCHANGED <<varsBucket, varsMR, varsInc>>

NextJson ==
    FromJson \/ ToJson \/ TraverseValue \/ CallToDict \/ TraverseList
    \/ ReturnDict \/ ReturnList \/ RaiseTypeError \/ Dumps \/ AssertRoundTrip

\* Whether a field of the switch or of a machine of the description is an object.
HasObjectField ==
    LET top == js.serialized.items
        sw == Lookup(top, "switch").items
        ms == Lookup(top, "machines").items
    IN \/ \E i \in 1..Len(sw) : sw[i].value.t = "object"
       \/ \E j \in 1..Len(ms) :
             \E i \in 1..Len(ms[j].value.items) : ms[j].value.items[i].value.t = "object"

\* C7: for every DatacenterRack description s,
\* json.loads(DatacenterRack.from_json(s).to_json()) == json.loads(s): the
\* round trip raises nothing and the assertion of line 128 holds.
C7_RoundTrip ==
    /\ td.pc # "TypeError"
    /\ js.pc = "done" => js.equal

\* C7 for the descriptions whose fields are numbers (holds; a field that is an
\* object is what breaks C7).
C7_NumberFields ==
    ~HasObjectField =>
        /\ td.pc # "TypeError"
        /\ js.pc = "done" => js.equal

\* The round trip has ended for a rack of two machines with numbers of both forms.
C7_NumberFieldsWitness ==
    /\ js.pc = "done" /\ js.equal
    /\ ~HasObjectField
    /\ Len(Lookup(js.serialized.items, "machines").items) = 2
    /\ js.roundtrip # js.serialized

\* Whether d is the dictionary of object id: the items of its __dict__ in
\* order, a parent that is a node by that node's value, any other object by
\* its own dictionary.
RECURSIVE DictOf(_, _)
DictOf(d, id) ==
    /\ d.t = "dict"
    /\ Len(d.items) = Len(heap[id].dict)
    /\ \A i \in 1..Len(heap[id].dict) :
          LET e == heap[id].dict[i]
              o == d.items[i]
          IN /\ o.key = e.key
             /\ IF e.value.t # "ref" THEN o.value = e.value
                ELSE IF e.key = "parent" /\ heap[id].cls = "BinaryTreeWithParent"
                  THEN o.value = Attr(heap, e.value.n, "value")
                  ELSE DictOf(o.value, e.value.n)

\* C8: to_dict on a BinaryTreeWithParent, or on a NamedSubTree holding one,
\* terminates, and in its result every node's parent entry is the parent's
\* value (None without a parent), not a nested dictionary.
C8_ToDictTerminates ==
    /\ [](td.pc = "done" => DictOf(td.result, td.root))
    /\ [](td.pc # "RecursionError")
    /\ (td.pc = "run") ~> (td.pc = "done")

\* to_dict has returned for a call on a node of three whose parent is a node
\* with a parent of its own.
C8_Witness ==
    /\ td.pc = "done"
    /\ \E n \in Nodes :
          /\ Attr(heap, n, "parent").t = "ref"
          /\ Attr(heap, Attr(heap, n, "parent").n, "parent").t = "ref"
          /\ Attr(heap, td.root, IF heap[td.root].cls = "NamedSubTree"
                                   THEN "tree_with_parent" ELSE "left").t = "ref"

(***************************************************************************)
(*                 item30.py : the calls on the buckets                    *)
(***************************************************************************)

\* bucket = Bucket(period) of lines 34 and 91, for both classes at the same time.
InitBucketVars ==
    /\ now = 0
    /\ \E period \in 1..MaxPeriod :
          /\ plain = PlainBucket(period, 0)
          /\ prop = PropBucket(period, 0)
          /\ last = [op |-> "new", amount |-> 0, t |-> 0,
                     prePlain |-> PlainBucket(period, 0),
                     preProp |-> PropBucket(period, 0),
                     retPlain |-> "None", retProp |-> "None", start |-> 0]
    /\ hist = [positive |-> TRUE, onePeriod |-> TRUE, start |-> 0]

\* Time passes between two calls.
Tick ==
    /\ now < MaxTime
    /\ now' = now + 1
    /\ UNCHANGED <<plain, prop, last, hist>>
    /\ UNCHANGED <<varsMR, varsInc, varsTree, js>>

\* Whether a call at time t is still in the period the bucket was created in.
InFirstPeriod(b, t) == b.reset_time.dt /\ ~Elapsed(b, t)

\* fill(bucket, amount) of lines 35 and 93, on both buckets.
FillCall ==
    \E amount \in Amounts :
        /\ plain.quota + amount <= MaxQuota
        /\ LET rp == fill(plain, amount, now)
               rq == fill(prop, amount, now)
           IN /\ plain' = rp.b
              /\ prop' = rq.b
              /\ last' = [op |-> "fill", amount |-> amount, t |-> now,
                          prePlain |-> plain, preProp |-> prop,
                          retPlain |-> rp.ret, retProp |-> rq.ret,
                          start |-> hist.start]
        /\ hist' = [positive |-> hist.positive /\ amount > 0,
                    onePeriod |-> hist.onePeriod /\ InFirstPeriod(plain, now),
                    start |-> IF now - hist.start > plain.period_delta
                                THEN now ELSE hist.start]
        /\ UNCHANGED now
        /\ UNCHANGED <<varsMR, varsInc, varsTree, js>>

\* deduct(bucket, amount) of lines 40, 49, 96 and 102, on both buckets.
DeductCall ==
    \E amount \in Amounts :
        /\ LET rp == deduct(plain, amount, now)
               rq == deduct(prop, amount, now)
           IN /\ plain' = rp.b
              /\ prop' = rq.b
              /\ last' = [op |-> "deduct", amount |-> amount, t |-> now,
                          prePlain |-> plain, preProp |-> prop,
                          retPlain |-> rp.ret, retProp |-> rq.ret,
                          start |-> hist.start]
        /\ hist' = [positive |-> hist.positive /\ amount > 0,
                    onePeriod |-> hist.onePeriod /\ InFirstPeriod(plain, now),
                    start |-> hist.start]
        /\ UNCHANGED now
        /\ UNCHANGED <<varsMR, varsInc, varsTree, js>>

NextBucket == Tick \/ FillCall \/ DeductCall

Raised(ret) == ret \in {"TypeError", "AssertionError"}

\* C1: for every sequence of fill and deduct calls with positive amounts within
\* one period, starting from a fresh bucket, the plain Bucket and the @property
\* Bucket give the same return values and the same quota after every call, and
\* neither raises.
C1_Transparent ==
    (hist.positive /\ hist.onePeriod) =>
        /\ last.retPlain = last.retProp
        /\ GetQuota(plain) = GetQuota(prop)
        /\ ~Raised(last.retPlain) /\ ~Raised(last.retProp)

\* What C2 says of one bucket: pre and cur are the bucket before and after the
\* last call, ret the call's outcome.
DeductExact(pre, cur, ret) ==
    (last.op = "deduct" /\ ret = "True") =>
        /\ pre.reset_time.dt /\ ~Elapsed(pre, last.t)
        /\ GetQuota(pre) >= last.amount
        /\ GetQuota(cur) = GetQuota(pre) - last.amount

\* C2: deduct returns True only if the call is within the bucket's period and
\* quota >= amount before the call, and then reduces quota by exactly amount;
\* the plain Bucket's quota is never negative.
C2_DeductExact ==
    /\ DeductExact(last.prePlain, plain, last.retPlain)
    /\ DeductExact(last.preProp, prop, last.retProp)
    /\ plain.quota >= 0

\* C2 on the plain Bucket alone (holds; the @property Bucket is what breaks C2).
C2_PlainOnly ==
    /\ DeductExact(last.prePlain, plain, last.retPlain)
    /\ plain.quota >= 0

\* What C3 says of one bucket.
FillPeriod(pre, cur, ret) ==
    last.op = "fill" =>
        IF last.t - last.start > pre.period_delta
          THEN GetQuota(cur) = last.amount
          ELSE ret = "None" /\ GetQuota(cur) = GetQuota(pre) + last.amount

\* C3: a fill after the bucket's period has elapsed leaves quota = amount, a
\* fill within the period adds amount to the quota.
C3_FillPeriod ==
    /\ FillPeriod(last.prePlain, plain, last.retPlain)
    /\ FillPeriod(last.preProp, prop, last.retProp)

\* C3 on the plain Bucket alone: fails too, by the reset_time of line 21.
C3_PlainOnly == FillPeriod(last.prePlain, plain, last.retPlain)

\* C4: a deduct call that returns False leaves the bucket as it was, for both
\* Bucket classes.
C4_DeductFalseFrame ==
    last.op = "deduct" =>
        /\ last.retPlain = "False" => plain = last.prePlain
        /\ last.retProp = "False" => prop = last.preProp

\* A deduct refused for lack of quota, within the period, on buckets that hold
\* quota and have consumed some (the example of lines 49-56 and 102-113).
C4_Witness ==
    /\ last.op = "deduct"
    /\ last.retPlain = "False" /\ last.retProp = "False"
    /\ ~Elapsed(last.prePlain, last.t)
    /\ plain.quota > 0 /\ prop.quota_consumed > 0 /\ GetQuota(prop) > 0

(***************************************************************************)
(*                           Specifications                                *)
(***************************************************************************)

InitBucket == InitBucketVars /\ IdleMR /\ IdleInc /\ IdleTree /\ IdleJson
InitInc == IdleBucket /\ IdleMR /\ InitIncVars /\ IdleTree /\ IdleJson
InitMR == IdleBucket /\ InitMRVars /\ IdleInc /\ IdleTree /\ IdleJson
InitTree == IdleBucket /\ IdleMR /\ IdleInc /\ InitTreeVars /\ IdleJson
InitJson == IdleBucket /\ IdleMR /\ IdleInc /\ IdleTree /\ InitJsonVars
SpecBucket == InitBucket /\ [][NextBucket]_vars
SpecInc == InitInc /\ [][NextInc]_vars
SpecMR == InitMR /\ [][NextMR]_vars
SpecTree == InitTree /\ [][NextTree]_vars /\ WF_vars(TraverseValue \/ CallToDict \/ ReturnDict)
SpecJson == InitJson /\ [][NextJson]_vars

=============================================================================
